---- MODULE Spec2Model ----
(***************************************************************************)
(* Role-based authorization and data scoping of the time tracker's         *)
(* storage layer (server/storage.ts, class DatabaseStorage) over the       *)
(* schema of shared/schema.ts.  Every storage operation is an operator     *)
(* from a database value to a result (new database, returned rows, thrown  *)
(* error); the actions apply the operators to the current database.        *)
(* Timestamps and free-text columns carry no authorization decision and    *)
(* are not part of the rows.                                               *)
(***************************************************************************)
EXTENDS Integers, FiniteSets, Sequences, TLC

\* ------------------------------------------------------------------ bounds
MaxProjects == 1
MaxTasks == 1
MaxEntries == 2
MaxEmployees == 2
MaxDepartments == 1
MaxDuration == 2
MaxAssign == 2
\* the clock runs from 0 to MaxClock
MaxClock == 2

\* ------------------------------------------------------------- value sets
\* a null column / an undefined result
NULL == 0
\* the users.role column holding SQL NULL
NoRole == "<null>"
\* an omitted (undefined) userId argument
NoUser == ""

\* roles the code names
Roles == {"admin", "project_manager", "manager", "employee", "viewer"}
\* what the varchar(50) role column can hold: a named role, a string outside
\* the named roles, the empty string, NULL
StoredRoles == Roles \cup {"guest", "", NoRole}

\* ids of createTestUsers' testUsersData
TestUsers ==
  [r \in Roles |->
     CASE r = "admin" -> "test-admin-001"
       [] r = "manager" -> "test-manager-001"
       [] r = "project_manager" -> "test-pm-001"
       [] r = "employee" -> "test-employee-001"
       [] r = "viewer" -> "test-viewer-001"]
TestUserIds == {TestUsers[r] : r \in Roles}
\* the user the development-mode authentication works on
DevUser == "test-admin-user"

\* users that sign in through the identity provider
UserIds == {"u1", "u2"}
\* an acting user id with no row in users
Ghost == "u0"
\* the users whose calls are followed: u1 (whose role changes) and the ghost;
\* u2 is the other user, owner of rows u1 does not own
ActorIds == {"u1", Ghost}
\* the users whose role updateUserRole is called on
RoleTargets == {"u1", "test-employee-001", DevUser}

ProjectIds == 1..MaxProjects
TaskIds == 1..MaxTasks
EntryIds == 1..MaxEntries
EmployeeIds == 1..MaxEmployees
DepartmentIds == 1..MaxDepartments
OrganizationIds == {1}
Durations == 1..MaxDuration
DepartmentNames == {"d1", "d2"}

\* --------------------------------------------------------------- the state
VARIABLES users, projects, tasks, timeEntries, employees, projectEmployees,
          departments, organizations, last, fixture, running, assigning,
          request

tables == <<users, projects, tasks, timeEntries, employees, projectEmployees,
            departments, organizations>>
vars == <<users, projects, tasks, timeEntries, employees, projectEmployees,
          departments, organizations, last, fixture, running, assigning, request>>

\* the database as one value
DB ==
  [users |-> users, projects |-> projects, tasks |-> tasks,
   timeEntries |-> timeEntries, employees |-> employees,
   projectEmployees |-> projectEmployees, departments |-> departments,
   organizations |-> organizations]

EmptyDB ==
  [users |-> <<>>, projects |-> <<>>, tasks |-> <<>>, timeEntries |-> <<>>,
   employees |-> <<>>, projectEmployees |-> {}, departments |-> <<>>,
   organizations |-> <<>>]

\* ----------------------------------------------------------------- helpers
\* a table without the rows whose id is in ids
Without(table, ids) == [k \in DOMAIN table \ ids |-> table[k]]
\* a table with row id set to row
With(table, id, row) ==
  [k \in DOMAIN table \cup {id} |-> IF k = id THEN row ELSE table[k]]
\* { ...row, ...patch }
Merge(row, patch) ==
  [f \in DOMAIN row |-> IF f \in DOMAIN patch THEN patch[f] ELSE row[f]]
\* gen_random_uuid(): an id no row of the table holds
FreshIds(table, ids) == ids \ DOMAIN table

\* the result of a storage call
Result(db, ok, err, rows) == [db |-> db, ok |-> ok, err |-> err, rows |-> rows]
NoError == "none"
InsufficientPermissions == "Insufficient permissions"
ProjectNotFound == "Project not found"
ConstraintViolation == "violates foreign key constraint"
Throw(db, err) == Result(db, FALSE, err, {})

\* the pool failing to give a connection within connectionTimeoutMillis
ConnectionError == "connection error"

\* error.message as its characters
message(err) ==
  CASE err = InsufficientPermissions ->
         \* "Insufficient permissions to update projects"
         <<"I", "n", "s", "u", "f", "f", "i", "c", "i", "e", "n", "t", " ", "p",
           "e", "r", "m", "i", "s", "s", "i", "o", "n", "s", " ", "t", "o", " ",
           "u", "p", "d", "a", "t", "e", " ", "p", "r", "o", "j", "e", "c", "t",
           "s">>
    [] err = ConnectionError ->
         \* "Connection terminated due to connection timeout"
         <<"C", "o", "n", "n", "e", "c", "t", "i", "o", "n", " ", "t", "e", "r",
           "m", "i", "n", "a", "t", "e", "d", " ", "d", "u", "e", " ", "t", "o",
           " ", "c", "o", "n", "n", "e", "c", "t", "i", "o", "n", " ", "t", "i",
           "m", "e", "o", "u", "t">>
    [] err = ConstraintViolation ->
         \* "violates foreign key constraint"
         <<"v", "i", "o", "l", "a", "t", "e", "s", " ", "f", "o", "r", "e", "i",
           "g", "n", " ", "k", "e", "y", " ", "c", "o", "n", "s", "t", "r", "a",
           "i", "n", "t">>
    [] OTHER -> <<>>

\* String.prototype.includes: searchString occurs in string, case-sensitively
includes(string, searchString) ==
  \E i \in 1..(Len(string) - Len(searchString) + 1) :
    SubSeq(string, i, i + Len(searchString) - 1) = searchString

\* withDatabaseRetry(operation, maxRetries = 3)
maxRetries == 3
\* the maxRetries arguments a caller passes, the default among them
RetryLimits == 0..maxRetries
\* let lastError: Error; never assigned
undefined == "undefined"

\* slip: 'Permission' searched for, which no message of the storage layer has
isAuthenticationOrPermissionError_Capital(err) ==
  \/ includes(message(err), <<"a", "u", "t", "h", "e", "n", "t", "i", "c", "a",
                               "t", "i", "o", "n">>)
  \/ includes(message(err), <<"P", "e", "r", "m", "i", "s", "s", "i", "o", "n">>)

\* error.message.includes('authentication') || error.message.includes('permission')
isAuthenticationOrPermissionError(err) ==
  \/ includes(message(err), <<"a", "u", "t", "h", "e", "n", "t", "i", "c", "a",
                               "t", "i", "o", "n">>)
  \/ includes(message(err), <<"p", "e", "r", "m", "i", "s", "s", "i", "o", "n">>)

\* slip: user?.role || 'admin'
userRole_DefaultAdmin(db, userId) ==
  IF userId \in DOMAIN db.users /\ db.users[userId].role \notin {NoRole, ""}
    THEN db.users[userId].role
    ELSE "admin"

\* const userRole = user?.role || 'employee'
userRole(db, userId) ==
  IF userId \in DOMAIN db.users /\ db.users[userId].role \notin {NoRole, ""}
    THEN db.users[userId].role
    ELSE "employee"

\* slip: 'manager' added to the allowed roles
IsAdminOrProjectManager_OrManager(role) ==
  role \in {"admin", "project_manager", "manager"}
IsAdminOrProjectManager(role) == role \in {"admin", "project_manager"}
\* slip: userRole !== 'manager'
IsAdminOrManager_ManagerOnly(role) == role = "manager"
IsAdminOrManager(role) == role \in {"admin", "manager"}
IsAdmin(role) == role = "admin"

\* ------------------------------------------------------------------- users
\* users.role default("employee"), users.isActive default(true)
UserDefaults == [role |-> "employee", isActive |-> TRUE]

\* insert ... values(userData) onConflictDoUpdate set userData
upsertUser(db, id, userData) ==
  LET row == IF id \in DOMAIN db.users
               THEN Merge(db.users[id], userData)
               ELSE Merge(UserDefaults, userData)
  IN  Result([db EXCEPT !.users = With(db.users, id, row)], TRUE, NoError, {id})

\* update users set role where id = userId; no acting user, no role check
updateUserRole(db, userId, role) ==
  IF userId \in DOMAIN db.users
    THEN Result([db EXCEPT !.users[userId].role = role], TRUE, NoError, {userId})
    ELSE Result(db, FALSE, NoError, {})

deactivateUser(db, userId) ==
  IF userId \in DOMAIN db.users
    THEN Result([db EXCEPT !.users[userId].isActive = FALSE], TRUE, NoError, {userId})
    ELSE Result(db, FALSE, NoError, {})

\* for each of testUsersData: insert, onConflictDoUpdate set userData (role included)
createTestUsers(db) ==
  LET row(id) ==
        LET r == CHOOSE x \in Roles : TestUsers[x] = id
        IN  IF id \in DOMAIN db.users
              THEN Merge(db.users[id], [role |-> r])
              ELSE Merge(UserDefaults, [role |-> r])
      newUsers == [id \in DOMAIN db.users \cup TestUserIds |->
                     IF id \in TestUserIds THEN row(id) ELSE db.users[id]]
  IN  Result([db EXCEPT !.users = newUsers], TRUE, NoError, TestUserIds)

\* the development branch of isAuthenticated: upsertUser of the test user
\* without a role, getUser, and updateUserRole(..., "admin") when the user has
\* no row or a role that is null or empty
isAuthenticated(db) ==
  LET upserted == upsertUser(db, DevUser, <<>>).db
      currentUser == upserted.users[DevUser]
  IN  IF currentUser.role \in {NoRole, ""}
        THEN updateUserRole(upserted, DevUser, "admin")
        ELSE Result(upserted, TRUE, NoError, {DevUser})

\* ---- the isAuthenticated request handler
\* values of process.env.NODE_ENV
NodeEnvs == {"development", "Development", "production"}
\* Date.now() / 1000 and the exp claim of a token
Clock == 0..MaxClock
Times == 1..MaxClock
AccessTokens == {"at1", "at2"}
\* "" for a token response without a refresh token
RefreshTokens == {"", "rt1"}
\* what the identity provider answers: tokens.access_token,
\* tokens.refresh_token and tokens.claims().exp
TokenResponses == [access_token : AccessTokens, refresh_token : RefreshTokens,
                   exp : Times]
NoTokens == [access_token |-> "", refresh_token |-> "", exp |-> NULL]
\* client.refreshTokenGrant: it throws, or it answers with tokens
Grants == {[ok |-> FALSE, tokens |-> NoTokens]}
            \cup {[ok |-> TRUE, tokens |-> t] : t \in TokenResponses}
\* the database call of the handler that fails, if one does
DbFailures == {"none", "upsertUser", "getUser"}

\* req.user of a request without a session: !req.isAuthenticated() || !req.user
Anonymous == [sub |-> NoUser, access_token |-> "", refresh_token |-> "",
              expires_at |-> NULL]

\* slip: user.access_token is left as it was
updateUserSession_KeepAccessToken(user, sub, tokens) ==
  [sub |-> sub, access_token |-> user.access_token,
   refresh_token |-> tokens.refresh_token, expires_at |-> tokens.exp]

\* user.claims = tokens.claims(); user.access_token = tokens.access_token;
\* user.refresh_token = tokens.refresh_token; user.expires_at = user.claims?.exp
\* (sub: the subject the provider issued the tokens for)
updateUserSession(user, sub, tokens) ==
  [sub |-> sub, access_token |-> tokens.access_token,
   refresh_token |-> tokens.refresh_token, expires_at |-> tokens.exp]

\* slip: every mode but production
IsDevelopmentMode_NotProduction(NODE_ENV) == NODE_ENV # "production"

\* process.env.NODE_ENV === 'development'
IsDevelopmentMode(NODE_ENV) == NODE_ENV = "development"

\* user.expires_at && Date.now() / 1000 > user.expires_at
Expired(user, now) == user.expires_at # NULL /\ now > user.expires_at

\* what the handler leaves: the database, the session's user, the response
\* ("next" for next(), "401"), the user the next handler sees and how the
\* token refresh went ("no" when none was tried)
Handled(db, user, response, sub, refreshed) ==
  [db |-> db, user |-> user, response |-> response, sub |-> sub,
   refreshed |-> refreshed]

\* the development branch with its database calls failing or not: the error
\* is caught and logged
SetupTestUser(db, fails) ==
  CASE fails = "upsertUser" -> db
    [] fails = "getUser" -> upsertUser(db, DevUser, <<>>).db
    [] OTHER -> isAuthenticated(db).db

\* isAuthenticated(req, res, next)
isAuthenticatedHandler(db, NODE_ENV, user, now, grant, fails) ==
  IF IsDevelopmentMode(NODE_ENV) /\ user = Anonymous
    THEN Handled(SetupTestUser(db, fails), user, "next", DevUser, "no")
  ELSE IF user = Anonymous
    THEN Handled(db, user, "401", NoUser, "no")
  ELSE IF Expired(user, now)
    THEN IF user.refresh_token # ""
           THEN IF ~grant.ok
                  THEN Handled(db, user, "401", NoUser, "failed")
                ELSE LET refreshed == updateUserSession(user, user.sub, grant.tokens)
                     IN  IF fails = "upsertUser"
                           THEN Handled(db, refreshed, "401", NoUser, "failed")
                           ELSE Handled(upsertUser(db, user.sub, <<>>).db,
                                        refreshed, "next", user.sub, "ok")
           ELSE Handled(db, user, "401", NoUser, "no")
  ELSE Handled(db, user, "next", user.sub, "no")

\* ---------------------------------------------------------------- projects
getProjects(db) == Result(db, TRUE, NoError, DOMAIN db.projects)

\* "For now, return enterprise-wide projects only"
getEmployeeProjects(db, userId) ==
  Result(db, TRUE, NoError,
         {p \in DOMAIN db.projects : db.projects[p].isEnterpriseWide})

\* "Pure RBAC - no user ownership restrictions for viewing projects"
getProject(db, id, userId) ==
  IF id \in DOMAIN db.projects
    THEN Result(db, TRUE, NoError, {id})
    ELSE Result(db, FALSE, NoError, {})

\* the foreign keys of a projects row
ProjectRefsOk(db, row) == row.userId \in DOMAIN db.users

createProject(db, id, project, userId) ==
  IF ~IsAdminOrProjectManager(userRole(db, userId))
    THEN Throw(db, InsufficientPermissions)
  ELSE IF ~ProjectRefsOk(db, project)
    THEN Throw(db, ConstraintViolation)
  ELSE Result([db EXCEPT !.projects = With(db.projects, id, project)],
              TRUE, NoError, {id})

\* updateProject from the role check on, with the role getUser returned
updateProjectAs(db, id, project, role) ==
  IF ~IsAdminOrProjectManager(role)
    THEN Throw(db, InsufficientPermissions)
  ELSE IF id \notin DOMAIN db.projects
    THEN Result(db, FALSE, NoError, {})
  ELSE IF ~ProjectRefsOk(db, Merge(db.projects[id], project))
    THEN Throw(db, ConstraintViolation)
  ELSE Result([db EXCEPT !.projects[id] = Merge(db.projects[id], project)],
              TRUE, NoError, {id})

updateProject(db, id, project, userId) ==
  updateProjectAs(db, id, project, userRole(db, userId))

\* delete from projects where id; tasks, time_entries and project_employees
\* rows of the project go with it (onDelete cascade), time_entries.task_id of
\* a removed task becomes null (onDelete set null)
\* slip: the projects row alone is deleted, no onDelete rule applied
CascadeDeleteProjects_ProjectsOnly(db, ids) ==
  [db EXCEPT !.projects = Without(db.projects, ids)]

CascadeDeleteProjects(db, ids) ==
  LET goneTasks == {t \in DOMAIN db.tasks : db.tasks[t].projectId \in ids}
      keptEntries == {e \in DOMAIN db.timeEntries :
                        db.timeEntries[e].projectId \notin ids}
  IN  [db EXCEPT
         !.projects = Without(db.projects, ids),
         !.tasks = Without(db.tasks, goneTasks),
         !.timeEntries =
            [e \in keptEntries |->
               IF db.timeEntries[e].taskId \in goneTasks
                 THEN [db.timeEntries[e] EXCEPT !.taskId = NULL]
                 ELSE db.timeEntries[e]],
         !.projectEmployees =
            {r \in db.projectEmployees : r.projectId \notin ids}]

\* slip: and(eq(projects.id, id), eq(projects.userId, userId))
deleteProject_OwnOnly(db, id, userId) ==
  IF ~IsAdminOrProjectManager(userRole(db, userId))
    THEN Throw(db, InsufficientPermissions)
  ELSE IF id \notin DOMAIN db.projects \/ db.projects[id].userId # userId
    THEN Result(db, FALSE, NoError, {})
  ELSE Result(CascadeDeleteProjects(db, {id}), TRUE, NoError, {id})

deleteProject(db, id, userId) ==
  IF ~IsAdminOrProjectManager(userRole(db, userId))
    THEN Throw(db, InsufficientPermissions)
  ELSE IF id \notin DOMAIN db.projects
    THEN Result(db, FALSE, NoError, {})
  ELSE Result(CascadeDeleteProjects(db, {id}), TRUE, NoError, {id})

\* ------------------------------------------------------------------- tasks
\* every role reads the tasks of any project
getTasks(db, projectId, userId) ==
  Result(db, TRUE, NoError,
         {t \in DOMAIN db.tasks : db.tasks[t].projectId = projectId})

getTask(db, id, userId) ==
  IF id \in DOMAIN db.tasks
    THEN Result(db, TRUE, NoError, {id})
    ELSE Result(db, FALSE, NoError, {})

TaskRefsOk(db, row) == row.projectId \in DOMAIN db.projects

\* the role check runs only "if (userId)"
createTask(db, id, task, userId) ==
  IF userId # NoUser /\ ~IsAdminOrProjectManager(userRole(db, userId))
    THEN Throw(db, InsufficientPermissions)
  ELSE IF ~TaskRefsOk(db, task)
    THEN Throw(db, ConstraintViolation)
  ELSE Result([db EXCEPT !.tasks = With(db.tasks, id, task)], TRUE, NoError, {id})

updateTask(db, id, taskData, userId) ==
  IF ~IsAdminOrProjectManager(userRole(db, userId))
    THEN Throw(db, InsufficientPermissions)
  ELSE IF ~getTask(db, id, userId).ok
    THEN Result(db, FALSE, NoError, {})
  ELSE IF ~TaskRefsOk(db, Merge(db.tasks[id], taskData))
    THEN Throw(db, ConstraintViolation)
  ELSE Result([db EXCEPT !.tasks[id] = Merge(db.tasks[id], taskData)],
              TRUE, NoError, {id})

deleteTask(db, id, userId) ==
  IF ~IsAdminOrProjectManager(userRole(db, userId))
    THEN Throw(db, InsufficientPermissions)
  ELSE IF ~getTask(db, id, userId).ok
    THEN Result(db, FALSE, NoError, {})
  ELSE Result([db EXCEPT
                 !.tasks = Without(db.tasks, {id}),
                 !.timeEntries =
                    [e \in DOMAIN db.timeEntries |->
                       IF db.timeEntries[e].taskId = id
                         THEN [db.timeEntries[e] EXCEPT !.taskId = NULL]
                         ELSE db.timeEntries[e]]],
              TRUE, NoError, {id})

\* admin, project_manager: every task; others: tasks of enterprise-wide projects
getAllUserTasks(db, userId) ==
  Result(db, TRUE, NoError,
         {t \in DOMAIN db.tasks :
            /\ db.tasks[t].projectId \in DOMAIN db.projects
            /\ \/ IsAdminOrProjectManager(userRole(db, userId))
               \/ db.projects[db.tasks[t].projectId].isEnterpriseWide})

\* ------------------------------------------------------------ time entries
\* slip: managers are let through to every row as well
OwnOrAll_ManagersToo(db, e, userId) ==
  \/ userRole(db, userId) \in {"admin", "project_manager", "manager"}
  \/ db.timeEntries[e].userId = userId

\* the user restriction of the time-entry queries:
\* admin and project_manager match any row, every other role its own rows
OwnOrAll(db, e, userId) ==
  \/ IsAdminOrProjectManager(userRole(db, userId))
  \/ db.timeEntries[e].userId = userId

\* from time_entries inner join projects ... where userId (unless admin or
\* project_manager) and the optional projectId filter (NULL: no filter)
getTimeEntries(db, userId, projectId) ==
  Result(db, TRUE, NoError,
         {e \in DOMAIN db.timeEntries :
            /\ db.timeEntries[e].projectId \in DOMAIN db.projects
            /\ \/ userRole(db, userId) = "admin"
               \/ userRole(db, userId) = "project_manager"
               \/ db.timeEntries[e].userId = userId
            /\ projectId # NULL => db.timeEntries[e].projectId = projectId})

getTimeEntry(db, id, userId) ==
  LET found == {e \in DOMAIN db.timeEntries :
                  /\ e = id
                  /\ db.timeEntries[e].projectId \in DOMAIN db.projects
                  /\ OwnOrAll(db, e, userId)}
  IN  Result(db, found # {}, NoError, found)

\* getTimeEntries(userId, { limit, startDate, endDate })
getRecentActivity(db, userId) == getTimeEntries(db, userId, NULL)

EntryRefsOk(db, row) ==
  /\ row.userId \in DOMAIN db.users
  /\ row.projectId \in DOMAIN db.projects
  /\ row.taskId # NULL => row.taskId \in DOMAIN db.tasks

\* no acting user: the entry's userId is whatever the caller put in it
createTimeEntry(db, id, entry) ==
  IF ~EntryRefsOk(db, entry)
    THEN Throw(db, ConstraintViolation)
    ELSE Result([db EXCEPT !.timeEntries = With(db.timeEntries, id, entry)],
                TRUE, NoError, {id})

\* update time_entries set entry where id = id [and userId = userId]
updateTimeEntry(db, id, entry, userId) ==
  IF id \notin DOMAIN db.timeEntries \/ ~OwnOrAll(db, id, userId)
    THEN Result(db, FALSE, NoError, {})
  ELSE IF ~EntryRefsOk(db, Merge(db.timeEntries[id], entry))
    THEN Throw(db, ConstraintViolation)
  ELSE Result([db EXCEPT !.timeEntries[id] = Merge(db.timeEntries[id], entry)],
              TRUE, NoError, {id})

\* delete from time_entries where id = id [and userId = userId]
deleteTimeEntry(db, id, userId) ==
  IF id \notin DOMAIN db.timeEntries \/ ~OwnOrAll(db, id, userId)
    THEN Result(db, FALSE, NoError, {})
    ELSE Result([db EXCEPT !.timeEntries = Without(db.timeEntries, {id})],
                TRUE, NoError, {id})

\* SUM(duration) over a set of time entries
RECURSIVE SumDuration(_, _)
SumDuration(db, es) ==
  IF es = {} THEN 0
  ELSE LET e == CHOOSE x \in es : TRUE
       IN  db.timeEntries[e].duration + SumDuration(db, es \ {e})

\* hours and active projects over the entries the userFilter lets through
getDashboardStats(db, userId) ==
  LET es == {e \in DOMAIN db.timeEntries : OwnOrAll(db, e, userId)}
  IN  Result(db, TRUE, NoError,
             {[hours |-> SumDuration(db, es),
               activeProjects |->
                 Cardinality({db.timeEntries[e].projectId : e \in es})]})

\* projects left join time_entries, grouped by project; admin: every project,
\* project_manager: enterprise-wide or own, manager and the rest: enterprise-wide;
\* rows with no hours are filtered out
getProjectTimeBreakdown(db, userId) ==
  LET role == userRole(db, userId)
      visible == {p \in DOMAIN db.projects :
                    \/ role = "admin"
                    \/ /\ role = "project_manager"
                       /\ \/ db.projects[p].isEnterpriseWide
                          \/ db.projects[p].userId = userId
                    \/ /\ role \notin {"admin", "project_manager"}
                       /\ db.projects[p].isEnterpriseWide}
      hours(p) == SumDuration(db, {e \in DOMAIN db.timeEntries :
                                     db.timeEntries[e].projectId = p})
  IN  Result(db, TRUE, NoError,
             {<<p, hours(p)>> : p \in {q \in visible : hours(q) > 0}})

\* --------------------------------------------------------------- employees
\* both branches set whereCondition = undefined: every role reads every employee
getEmployees(db, userId) ==
  Result(db, TRUE, NoError,
         IF userRole(db, userId) = "admin"
           THEN DOMAIN db.employees
           ELSE DOMAIN db.employees)

getEmployee(db, id, userId) ==
  IF id \in DOMAIN db.employees
    THEN Result(db, TRUE, NoError, {id})
    ELSE Result(db, FALSE, NoError, {})

EmployeeRefsOk(db, row) == row.userId \in DOMAIN db.users

createEmployee(db, id, employee) ==
  IF ~EmployeeRefsOk(db, employee)
    THEN Throw(db, ConstraintViolation)
    ELSE Result([db EXCEPT !.employees = With(db.employees, id, employee)],
                TRUE, NoError, {id})

updateEmployee(db, id, employeeData, userId) ==
  IF ~IsAdminOrManager(userRole(db, userId))
    THEN Throw(db, InsufficientPermissions)
  ELSE IF id \notin DOMAIN db.employees
    THEN Result(db, FALSE, NoError, {})
  ELSE IF ~EmployeeRefsOk(db, Merge(db.employees[id], employeeData))
    THEN Throw(db, ConstraintViolation)
  ELSE Result([db EXCEPT !.employees[id] = Merge(db.employees[id], employeeData)],
              TRUE, NoError, {id})

\* project_employees rows of the employee go with it (onDelete cascade);
\* departments.manager_id references employees without an onDelete rule
deleteEmployee(db, id, userId) ==
  IF ~IsAdmin(userRole(db, userId))
    THEN Throw(db, InsufficientPermissions)
  ELSE IF id \notin DOMAIN db.employees
    THEN Result(db, FALSE, NoError, {})
  ELSE IF \E d \in DOMAIN db.departments : db.departments[d].managerId = id
    THEN Throw(db, ConstraintViolation)
  ELSE Result([db EXCEPT
                 !.employees = Without(db.employees, {id}),
                 !.projectEmployees =
                    {r \in db.projectEmployees : r.employeeId # id}],
              TRUE, NoError, {id})

linkUserToEmployee(db, userId, employeeId) ==
  IF employeeId \notin DOMAIN db.employees
    THEN Result(db, FALSE, NoError, {})
  ELSE IF userId \notin DOMAIN db.users
    THEN Throw(db, ConstraintViolation)
  ELSE Result([db EXCEPT !.employees[employeeId].userId = userId],
              TRUE, NoError, {employeeId})

\* ------------------------------------------------------ project assignments
\* project_employees has no unique constraint: a list naming an employee twice
\* inserts two rows; n numbers the rows of one employee within one insert
AssignmentRows(projectId, employeeIds, userId) ==
  {[projectId |-> projectId, employeeId |-> employeeIds[i], userId |-> userId,
    n |-> Cardinality({j \in 1..i : employeeIds[j] = employeeIds[i]})] :
     i \in 1..Len(employeeIds)}

\* the project; for a restricted project the employees of the assignment rows
\* whose userId is the reading user
getProjectWithEmployees(db, id, userId) ==
  IF ~getProject(db, id, userId).ok
    THEN Result(db, FALSE, NoError, {})
  ELSE IF db.projects[id].isEnterpriseWide
    THEN Result(db, TRUE, NoError, {})
  ELSE Result(db, TRUE, NoError,
              {r.employeeId : r \in {x \in db.projectEmployees :
                                       /\ x.projectId = id
                                       /\ x.userId = userId
                                       /\ x.employeeId \in DOMAIN db.employees}})

\* role check, project lookup, delete of the project's rows, insert of the new
\* rows: separate statements, no transaction; a failing insert leaves the delete
assignEmployeesToProject(db, projectId, employeeIds, userId) ==
  LET cleared == [db EXCEPT !.projectEmployees =
                    {r \in db.projectEmployees : r.projectId # projectId}]
  IN  IF ~IsAdminOrProjectManager(userRole(db, userId))
        THEN Throw(db, InsufficientPermissions)
      ELSE IF projectId \notin DOMAIN db.projects
        THEN Throw(db, ProjectNotFound)
      ELSE IF Len(employeeIds) = 0
        THEN Result(cleared, TRUE, NoError, {})
      ELSE IF \/ \E i \in 1..Len(employeeIds) : employeeIds[i] \notin DOMAIN db.employees
              \/ userId \notin DOMAIN db.users
        THEN Throw(cleared, ConstraintViolation)
      ELSE Result([cleared EXCEPT !.projectEmployees =
                     cleared.projectEmployees
                       \cup AssignmentRows(projectId, employeeIds, userId)],
                  TRUE, NoError, {})

\* assignEmployeesToProject as its callers see it: the operation inside
\* withDatabaseRetry, run again after every error that is not an
\* authentication or permission error, up to maxRetries runs
RECURSIVE assignEmployeesToProjectRetried(_, _, _, _, _)
assignEmployeesToProjectRetried(db, projectId, employeeIds, userId, attempt) ==
  LET r == assignEmployeesToProject(db, projectId, employeeIds, userId)
  IN  IF \/ r.err = NoError
         \/ isAuthenticationOrPermissionError(r.err)
         \/ attempt >= maxRetries
        THEN r
        ELSE assignEmployeesToProjectRetried(r.db, projectId, employeeIds, userId,
                                             attempt + 1)

getProjectEmployees(db, projectId, userId) ==
  IF ~IsAdminOrProjectManager(userRole(db, userId))
    THEN Throw(db, InsufficientPermissions)
    ELSE Result(db, TRUE, NoError,
                {r.employeeId : r \in {x \in db.projectEmployees :
                                         /\ x.projectId = projectId
                                         /\ x.employeeId \in DOMAIN db.employees}})

removeEmployeeFromProject(db, projectId, employeeId, userId) ==
  LET gone == {r \in db.projectEmployees :
                 r.projectId = projectId /\ r.employeeId = employeeId}
  IN  IF ~IsAdminOrProjectManager(userRole(db, userId))
        THEN Throw(db, InsufficientPermissions)
        ELSE Result([db EXCEPT !.projectEmployees = db.projectEmployees \ gone],
                    gone # {}, NoError, {})

\* ------------------------------------------------------------- departments
DepartmentRefsOk(db, row) ==
  /\ row.organizationId \in DOMAIN db.organizations
  /\ row.userId \in DOMAIN db.users
  /\ row.managerId # NULL => row.managerId \in DOMAIN db.employees

createDepartment(db, id, department) ==
  IF ~DepartmentRefsOk(db, department)
    THEN Throw(db, ConstraintViolation)
    ELSE Result([db EXCEPT !.departments = With(db.departments, id, department)],
                TRUE, NoError, {id})

\* the userId argument is not read
updateDepartment(db, id, department, userId) ==
  IF id \notin DOMAIN db.departments
    THEN Result(db, FALSE, NoError, {})
  ELSE IF ~DepartmentRefsOk(db, Merge(db.departments[id], department))
    THEN Throw(db, ConstraintViolation)
  ELSE Result([db EXCEPT !.departments[id] = Merge(db.departments[id], department)],
              TRUE, NoError, {id})

\* the userId argument is not read
deleteDepartment(db, id, userId) ==
  IF id \notin DOMAIN db.departments
    THEN Result(db, FALSE, NoError, {})
    ELSE Result([db EXCEPT !.departments = Without(db.departments, {id})],
                TRUE, NoError, {id})

\* the userId argument is not read
assignManagerToDepartment(db, departmentId, managerId, userId) ==
  IF departmentId \notin DOMAIN db.departments
    THEN Result(db, TRUE, NoError, {})
  ELSE IF managerId # NULL /\ managerId \notin DOMAIN db.employees
    THEN Throw(db, ConstraintViolation)
  ELSE Result([db EXCEPT !.departments[departmentId].managerId = managerId],
              TRUE, NoError, {departmentId})

\* ----------------------------------------------------------- organizations
createOrganization(db, id, organization) ==
  IF organization.userId \notin DOMAIN db.users
    THEN Throw(db, ConstraintViolation)
    ELSE Result([db EXCEPT !.organizations = With(db.organizations, id, organization)],
                TRUE, NoError, {id})

updateOrganization(db, id, organization, userId) ==
  IF ~IsAdmin(userRole(db, userId))
    THEN Throw(db, InsufficientPermissions)
  ELSE IF id \notin DOMAIN db.organizations
    THEN Result(db, FALSE, NoError, {})
  ELSE IF Merge(db.organizations[id], organization).userId \notin DOMAIN db.users
    THEN Throw(db, ConstraintViolation)
  ELSE Result([db EXCEPT !.organizations[id] = Merge(db.organizations[id], organization)],
              TRUE, NoError, {id})

\* departments of the organization go with it (onDelete cascade)
deleteOrganization(db, id, userId) ==
  IF ~IsAdmin(userRole(db, userId))
    THEN Throw(db, InsufficientPermissions)
  ELSE IF id \notin DOMAIN db.organizations
    THEN Result(db, FALSE, NoError, {})
  ELSE Result([db EXCEPT
                 !.organizations = Without(db.organizations, {id}),
                 !.departments =
                    Without(db.departments,
                            {d \in DOMAIN db.departments :
                               db.departments[d].organizationId = id})],
              TRUE, NoError, {id})

\* employees left join time_entries grouped by department name; admin: every
\* employee, every other role: the employee rows of the reading user;
\* departments with no hours are filtered out
getDepartmentHoursSummary(db, userId) ==
  LET emps == {m \in DOMAIN db.employees :
                 userRole(db, userId) = "admin" \/ db.employees[m].userId = userId}
      names == {db.employees[m].department : m \in emps}
      \* one joined row per (employee, entry of the employee's user)
      joined(d) == {<<m, e>> \in emps \X DOMAIN db.timeEntries :
                      /\ db.employees[m].department = d
                      /\ db.timeEntries[e].userId = db.employees[m].userId}
      RECURSIVE SumJoined(_)
      SumJoined(js) ==
        IF js = {} THEN 0
        ELSE LET j == CHOOSE x \in js : TRUE
             IN  db.timeEntries[j[2]].duration + SumJoined(js \ {j})
  IN  Result(db, TRUE, NoError,
             {<<d, SumJoined(joined(d))>> : d \in {x \in names : SumJoined(joined(x)) > 0}})

\* ================================================================= actions
\* the call just made: operation, acting user, target id, whether it returned
\* a row / true, the error it threw, and the userId column of the target row
\* before the call
NoCall == [op |-> "none", userId |-> NoUser, id |-> NULL, ok |-> FALSE,
           err |-> NoError, owner |-> NoUser]

\* no updateProject call inside withDatabaseRetry
Idle == [pc |-> "idle", id |-> NULL, project |-> <<>>, userId |-> NoUser,
         attempt |-> 0, bodies |-> 0, delays |-> 0, failures |-> 0,
         userRole |-> NoRole, ok |-> FALSE, err |-> NoError,
         maxRetries |-> maxRetries, lastError |-> undefined,
         thrown |-> NoError]

\* the web layer: NODE_ENV; now, the clock; user, the session's user; and of
\* the request isAuthenticated handled last: at, the time it came; before and
\* after, the session's user it came with and left; response; sub, the user
\* the next handler sees; refreshed and tokens, the answer of the token refresh
NoRequest == [NODE_ENV |-> "production", now |-> 0, user |-> Anonymous,
              before |-> Anonymous, response |-> "none", sub |-> NoUser,
              refreshed |-> "no", tokens |-> NoTokens, at |-> 0,
              after |-> Anonymous]

\* the two requests that call assignEmployeesToProject at the same time
Requests == {"a", "b"}
\* no assignEmployeesToProject call in progress
NotAssigning == [c \in Requests |-> [pc |-> "idle", employeeIds |-> <<>>]]

Owner(table, id) == IF id \in DOMAIN table THEN table[id].userId ELSE NoUser

Do(op, userId, id, owner, r) ==
  /\ users' = r.db.users
  /\ projects' = r.db.projects
  /\ tasks' = r.db.tasks
  /\ timeEntries' = r.db.timeEntries
  /\ employees' = r.db.employees
  /\ projectEmployees' = r.db.projectEmployees
  /\ departments' = r.db.departments
  /\ organizations' = r.db.organizations
  /\ last' = [op |-> op, userId |-> userId, id |-> id, ok |-> r.ok,
              err |-> r.err, owner |-> owner]
  /\ UNCHANGED <<fixture, running, assigning, request>>

\* ---- users
\* the callers (sign-in, token refresh, development authentication) pass the
\* id and the profile fields of the claims, no role
UserData == {<<>>}

UpsertUser ==
  \E id \in {"u1"}, userData \in UserData :
    Do("upsertUser", NoUser, NULL, NoUser, upsertUser(DB, id, userData))

UpdateUserRole ==
  \E id \in RoleTargets, role \in StoredRoles :
    Do("updateUserRole", NoUser, NULL, id, updateUserRole(DB, id, role))

DeactivateUser ==
  \E id \in RoleTargets :
    Do("deactivateUser", NoUser, NULL, id, deactivateUser(DB, id))

CreateTestUsers ==
  Do("createTestUsers", NoUser, NULL, NoUser, createTestUsers(DB))

\* a request in development mode with no authenticated session
IsAuthenticated ==
  Do("isAuthenticated", NoUser, NULL, DevUser, isAuthenticated(DB))

\* ---- the web layer
\* verify(tokens, verified) at the end of a login: the session's user is built
\* by updateUserSession from tokens that have not expired, and upserted
Verify ==
  /\ request.user = Anonymous
  /\ \E tokens \in TokenResponses :
       /\ tokens.exp >= request.now
       /\ request' = [request EXCEPT
                        !.user = updateUserSession(Anonymous, "u1", tokens)]
       /\ users' = upsertUser(DB, "u1", <<>>).db.users
  /\ UNCHANGED <<projects, tasks, timeEntries, employees, projectEmployees,
                 departments, organizations, last, fixture, running, assigning>>

\* req.logout()
Logout ==
  /\ request.user # Anonymous
  /\ request' = [request EXCEPT !.user = Anonymous]
  /\ UNCHANGED <<tables, last, fixture, running, assigning>>

\* time passes
Tick ==
  /\ request.now < MaxClock
  /\ request' = [request EXCEPT !.now = @ + 1]
  /\ UNCHANGED <<tables, last, fixture, running, assigning>>

\* a request passes through isAuthenticated; the identity provider, when
\* asked, refuses the refresh or answers with tokens that have not expired
IsAuthenticatedRequest ==
  /\ \E grant \in Grants, fails \in DbFailures :
       LET h == isAuthenticatedHandler(DB, request.NODE_ENV, request.user,
                                       request.now, grant, fails)
       IN  /\ grant.ok => grant.tokens.exp >= request.now
           /\ request' = [request EXCEPT
                            !.user = h.user, !.before = request.user,
                            !.at = request.now, !.after = h.user,
                            !.response = h.response, !.sub = h.sub,
                            !.refreshed = h.refreshed,
                            !.tokens = IF h.refreshed = "no" THEN NoTokens
                                       ELSE grant.tokens]
           /\ users' = h.db.users
  /\ UNCHANGED <<projects, tasks, timeEntries, employees, projectEmployees,
                 departments, organizations, last, fixture, running, assigning>>

\* the role of the test user changed in the database, for role testing
UpdateTestUserRole ==
  /\ \E role \in StoredRoles : users' = updateUserRole(DB, DevUser, role).db.users
  /\ UNCHANGED <<projects, tasks, timeEntries, employees, projectEmployees,
                 departments, organizations, last, fixture, running, assigning,
                 request>>

\* the role of the other user set to one that may read assignments, or back
UpdateOtherUserRole ==
  \E role \in {"admin", "project_manager", "employee"} :
    Do("updateUserRole", NoUser, NULL, "u2", updateUserRole(DB, "u2", role))

\* ---- time entries
EntryRows ==
  [userId : UserIds, projectId : ProjectIds, taskId : TaskIds \cup {NULL},
   duration : Durations]
EntryPatches ==
  {<<>>} \cup {[duration |-> d] : d \in Durations}
         \cup {[userId |-> u] : u \in UserIds}
         \cup {[taskId |-> t] : t \in TaskIds \cup {NULL}}

CreateTimeEntry ==
  \E id \in FreshIds(timeEntries, EntryIds), entry \in EntryRows :
    Do("createTimeEntry", NoUser, id, entry.userId, createTimeEntry(DB, id, entry))

UpdateTimeEntry ==
  \E id \in EntryIds, entry \in EntryPatches, userId \in ActorIds :
    Do("updateTimeEntry", userId, id, Owner(timeEntries, id),
       updateTimeEntry(DB, id, entry, userId))

DeleteTimeEntry ==
  \E id \in EntryIds, userId \in ActorIds :
    Do("deleteTimeEntry", userId, id, Owner(timeEntries, id),
       deleteTimeEntry(DB, id, userId))

GetTimeEntry ==
  \E id \in EntryIds, userId \in ActorIds :
    Do("getTimeEntry", userId, id, Owner(timeEntries, id),
       getTimeEntry(DB, id, userId))

GetTimeEntries ==
  \E projectId \in ProjectIds \cup {NULL}, userId \in ActorIds :
    Do("getTimeEntries", userId, projectId, NoUser, getTimeEntries(DB, userId, projectId))

GetRecentActivity ==
  \E userId \in ActorIds :
    Do("getRecentActivity", userId, NULL, NoUser, getRecentActivity(DB, userId))

GetDashboardStats ==
  \E userId \in ActorIds :
    Do("getDashboardStats", userId, NULL, NoUser, getDashboardStats(DB, userId))

GetProjectTimeBreakdown ==
  \E userId \in ActorIds :
    Do("getProjectTimeBreakdown", userId, NULL, NoUser,
       getProjectTimeBreakdown(DB, userId))

\* ---- projects
ProjectRows == [isEnterpriseWide : BOOLEAN, userId : UserIds]
ProjectPatches ==
  {<<>>} \cup {[isEnterpriseWide |-> b] : b \in BOOLEAN}
         \cup {[userId |-> u] : u \in UserIds}

GetProjects ==
  Do("getProjects", NoUser, NULL, NoUser, getProjects(DB))

GetEmployeeProjects ==
  \E userId \in ActorIds :
    Do("getEmployeeProjects", userId, NULL, NoUser, getEmployeeProjects(DB, userId))

GetProject ==
  \E id \in ProjectIds, userId \in ActorIds :
    Do("getProject", userId, id, Owner(projects, id), getProject(DB, id, userId))

CreateProject ==
  \E id \in FreshIds(projects, ProjectIds), project \in ProjectRows,
     userId \in ActorIds :
    Do("createProject", userId, id, project.userId,
       createProject(DB, id, project, userId))

UpdateProject ==
  \E id \in ProjectIds, project \in ProjectPatches, userId \in ActorIds :
    Do("updateProject", userId, id, Owner(projects, id),
       updateProject(DB, id, project, userId))

DeleteProject ==
  \E id \in ProjectIds, userId \in ActorIds :
    Do("deleteProject", userId, id, Owner(projects, id),
       deleteProject(DB, id, userId))

\* ---- updateProject inside withDatabaseRetry, one step per await
\* running: the call in progress; attempt, the loop counter; bodies, how often
\* the operation was started; delays, how often the loop waited before a
\* retry; failures, how often the database connection failed
\* lastError, the variable of that name; err, the error the operation raised
\* in the current attempt; thrown, what the call threw
\* the call starts: attempt = 1, and the loop is entered if attempt <= maxRetries;
\* otherwise throw lastError, which was never assigned
WithDatabaseRetry ==
  /\ running.pc \in {"idle", "returned", "thrown"}
  /\ \E id \in ProjectIds, project \in ProjectPatches, limit \in RetryLimits :
       running' = IF 1 <= limit
                    THEN [Idle EXCEPT !.pc = "getUser", !.id = id,
                                      !.project = project, !.userId = "u1",
                                      !.attempt = 1, !.maxRetries = limit]
                    ELSE [Idle EXCEPT !.pc = "thrown", !.id = id,
                                      !.project = project, !.userId = "u1",
                                      !.attempt = 1, !.maxRetries = limit,
                                      !.thrown = undefined]
  /\ UNCHANGED <<tables, last, fixture, assigning, request>>

\* const user = await this.getUser(userId), then the role check
UpdateProjectGetUser ==
  /\ running.pc = "getUser"
  /\ \/ running' = [running EXCEPT !.pc = "catch", !.err = ConnectionError,
                                    !.bodies = @ + 1, !.failures = @ + 1]
     \/ LET role == userRole(DB, running.userId)
        IN  running' =
              IF IsAdminOrProjectManager(role)
                THEN [running EXCEPT !.pc = "update", !.userRole = role,
                                     !.bodies = @ + 1]
                ELSE [running EXCEPT !.pc = "catch", !.userRole = role,
                                     !.bodies = @ + 1,
                                     !.err = InsufficientPermissions]
  /\ UNCHANGED <<tables, last, fixture, assigning, request>>

\* await db.update(projects).set(...).where(...).returning(); return
UpdateProjectUpdate ==
  /\ running.pc = "update"
  /\ \/ /\ running' = [running EXCEPT !.pc = "catch", !.err = ConnectionError,
                                       !.failures = @ + 1]
        /\ UNCHANGED <<tables, last>>
     \/ LET r == updateProjectAs(DB, running.id, running.project, running.userRole)
        IN  /\ projects' = r.db.projects
            /\ running' = IF r.err = NoError
                             THEN [running EXCEPT !.pc = "returned", !.ok = r.ok]
                             ELSE [running EXCEPT !.pc = "catch", !.err = r.err]
            /\ last' = [op |-> "updateProject", userId |-> running.userId,
                        id |-> running.id, ok |-> r.ok, err |-> r.err,
                        owner |-> Owner(projects, running.id)]
            /\ UNCHANGED <<users, tasks, timeEntries, employees, projectEmployees,
                           departments, organizations>>
  /\ UNCHANGED <<fixture, assigning, request>>

\* catch (error): rethrow an authentication or permission error, go on to the
\* wait before another attempt, or leave the loop and throw lastError
\* slip: attempt <= maxRetries, one more attempt than the limit
WithDatabaseRetryCatch_RetryAtLimit ==
  /\ running.pc = "catch"
  /\ running' =
       IF isAuthenticationOrPermissionError(running.err)
         THEN [running EXCEPT !.pc = "thrown", !.lastError = running.err,
                              !.thrown = running.err]
       ELSE IF running.attempt <= running.maxRetries
         THEN [running EXCEPT !.pc = "wait", !.lastError = running.err]
       ELSE [running EXCEPT !.pc = "thrown", !.lastError = running.err,
                            !.thrown = running.err]
  /\ UNCHANGED <<tables, last, fixture, assigning, request>>

\* lastError = error; then throw error, wait, or leave the loop
WithDatabaseRetryCatch ==
  /\ running.pc = "catch"
  /\ running' =
       IF isAuthenticationOrPermissionError(running.err)
         THEN [running EXCEPT !.pc = "thrown", !.lastError = running.err,
                              !.thrown = running.err]
       ELSE IF running.attempt < running.maxRetries
         THEN [running EXCEPT !.pc = "wait", !.lastError = running.err]
       ELSE [running EXCEPT !.pc = "thrown", !.lastError = running.err,
                            !.thrown = running.err]
  /\ UNCHANGED <<tables, last, fixture, assigning, request>>

\* await new Promise(resolve => setTimeout(resolve, 1000 * attempt)); attempt++
WithDatabaseRetryWait ==
  /\ running.pc = "wait"
  /\ running' = [running EXCEPT !.pc = "getUser", !.delays = @ + 1,
                                !.attempt = @ + 1, !.err = NoError]
  /\ UNCHANGED <<tables, last, fixture, assigning, request>>

\* ---- tasks
TaskStatus == {"active", "completed"}
TaskRows == [projectId : ProjectIds, status : {"active"}]
TaskPatches == {<<>>} \cup {[status |-> x] : x \in TaskStatus}

GetTasks ==
  \E projectId \in ProjectIds, userId \in ActorIds :
    Do("getTasks", userId, projectId, Owner(projects, projectId),
       getTasks(DB, projectId, userId))

GetTask ==
  \E id \in TaskIds, userId \in ActorIds :
    Do("getTask", userId, id, NoUser, getTask(DB, id, userId))

GetAllUserTasks ==
  \E userId \in ActorIds :
    Do("getAllUserTasks", userId, NULL, NoUser, getAllUserTasks(DB, userId))

\* createTask(task) and createTask(task, userId)
CreateTask ==
  \E id \in FreshIds(tasks, TaskIds), task \in TaskRows,
     userId \in ActorIds \cup {NoUser} :
    Do("createTask", userId, id, NoUser, createTask(DB, id, task, userId))

UpdateTask ==
  \E id \in TaskIds, taskData \in TaskPatches, userId \in ActorIds :
    Do("updateTask", userId, id, NoUser, updateTask(DB, id, taskData, userId))

DeleteTask ==
  \E id \in TaskIds, userId \in ActorIds :
    Do("deleteTask", userId, id, NoUser, deleteTask(DB, id, userId))

\* ---- project assignments
\* the employeeIds lists: up to MaxAssign ids, repeats allowed
EmployeeIdLists == UNION {[1..n -> EmployeeIds] : n \in 0..MaxAssign}

GetProjectWithEmployees ==
  \E id \in ProjectIds, userId \in ActorIds :
    Do("getProjectWithEmployees", userId, id, Owner(projects, id),
       getProjectWithEmployees(DB, id, userId))

AssignEmployeesToProject ==
  \E projectId \in ProjectIds, employeeIds \in EmployeeIdLists, userId \in ActorIds :
    Do("assignEmployeesToProject", userId, projectId, Owner(projects, projectId),
       assignEmployeesToProject(DB, projectId, employeeIds, userId))

GetProjectEmployees ==
  \E projectId \in ProjectIds, userId \in ActorIds :
    Do("getProjectEmployees", userId, projectId, Owner(projects, projectId),
       getProjectEmployees(DB, projectId, userId))

RemoveEmployeeFromProject ==
  \E projectId \in ProjectIds, employeeId \in EmployeeIds, userId \in ActorIds :
    Do("removeEmployeeFromProject", userId, projectId, Owner(projects, projectId),
       removeEmployeeFromProject(DB, projectId, employeeId, userId))

\* ---- assignEmployeesToProject(1, employeeIds, "u1"), one step per await,
\* called by two requests
\* the rows an insert adds: one new row (fresh id) per element of employeeIds
InsertedRows(db, projectId, employeeIds, userId) ==
  {[projectId |-> projectId, employeeId |-> employeeIds[i], userId |-> userId,
    n |-> Cardinality({r \in db.projectEmployees :
                         r.projectId = projectId /\ r.employeeId = employeeIds[i]})
          + Cardinality({j \in 1..i : employeeIds[j] = employeeIds[i]})] :
     i \in 1..Len(employeeIds)}

\* const user = await this.getUser(userId), then the role check
AssignGetUser ==
  /\ \E c \in Requests, employeeIds \in EmployeeIdLists :
       /\ assigning[c].pc = "idle"
       /\ assigning' =
            [assigning EXCEPT ![c] =
               [pc |-> IF IsAdminOrProjectManager(userRole(DB, "u1"))
                         THEN "select" ELSE "thrown",
                employeeIds |-> employeeIds]]
  /\ UNCHANGED <<tables, last, fixture, running, request>>

\* await db.select().from(projects).where(eq(projects.id, projectId))
AssignSelectProject ==
  /\ \E c \in Requests :
       /\ assigning[c].pc = "select"
       /\ assigning' = [assigning EXCEPT ![c].pc =
                          IF 1 \in DOMAIN projects THEN "delete" ELSE "thrown"]
  /\ UNCHANGED <<tables, last, fixture, running, request>>

\* await db.delete(projectEmployees).where(eq(projectEmployees.projectId, projectId))
AssignDelete ==
  /\ \E c \in Requests :
       /\ assigning[c].pc = "delete"
       /\ assigning' = [assigning EXCEPT ![c].pc = "insert"]
  /\ projectEmployees' = {r \in projectEmployees : r.projectId # 1}
  /\ UNCHANGED <<users, projects, tasks, timeEntries, employees, departments,
                 organizations, last, fixture, running, request>>

\* if (employeeIds.length > 0) await db.insert(projectEmployees).values(...)
AssignInsert ==
  /\ \E c \in Requests :
       /\ assigning[c].pc = "insert"
       /\ LET employeeIds == assigning[c].employeeIds
              refsOk == /\ \A i \in 1..Len(employeeIds) :
                             employeeIds[i] \in DOMAIN employees
                        /\ "u1" \in DOMAIN users /\ 1 \in DOMAIN projects
          IN  IF refsOk
                THEN /\ projectEmployees' =
                          projectEmployees \cup InsertedRows(DB, 1, employeeIds, "u1")
                     /\ assigning' = [assigning EXCEPT ![c].pc = "returned"]
                ELSE /\ UNCHANGED projectEmployees
                     /\ assigning' = [assigning EXCEPT ![c].pc = "thrown"]
  /\ UNCHANGED <<users, projects, tasks, timeEntries, employees, departments,
                 organizations, last, fixture, running, request>>

\* ---- employees
EmployeeRows == [department : DepartmentNames, userId : UserIds]
EmployeePatches == {<<>>} \cup {[department |-> d] : d \in DepartmentNames}

GetEmployees ==
  \E userId \in ActorIds :
    Do("getEmployees", userId, NULL, NoUser, getEmployees(DB, userId))

GetEmployee ==
  \E id \in EmployeeIds, userId \in ActorIds :
    Do("getEmployee", userId, id, Owner(employees, id), getEmployee(DB, id, userId))

CreateEmployee ==
  \E id \in FreshIds(employees, EmployeeIds), employee \in EmployeeRows :
    Do("createEmployee", NoUser, id, employee.userId, createEmployee(DB, id, employee))

UpdateEmployee ==
  \E id \in EmployeeIds, employeeData \in EmployeePatches, userId \in ActorIds :
    Do("updateEmployee", userId, id, Owner(employees, id),
       updateEmployee(DB, id, employeeData, userId))

DeleteEmployee ==
  \E id \in EmployeeIds, userId \in ActorIds :
    Do("deleteEmployee", userId, id, Owner(employees, id),
       deleteEmployee(DB, id, userId))

LinkUserToEmployee ==
  \E userId \in UserIds, employeeId \in EmployeeIds :
    Do("linkUserToEmployee", NoUser, employeeId, Owner(employees, employeeId),
       linkUserToEmployee(DB, userId, employeeId))

GetDepartmentHoursSummary ==
  \E userId \in ActorIds :
    Do("getDepartmentHoursSummary", userId, NULL, NoUser,
       getDepartmentHoursSummary(DB, userId))

\* ---- departments and organizations
DepartmentRows ==
  [organizationId : OrganizationIds, managerId : EmployeeIds \cup {NULL},
   userId : UserIds]
DepartmentPatches == {<<>>} \cup {[managerId |-> m] : m \in EmployeeIds \cup {NULL}}
OrganizationRows == [userId : UserIds]
OrganizationPatches == {<<>>} \cup {[userId |-> u] : u \in UserIds}

CreateDepartment ==
  \E id \in FreshIds(departments, DepartmentIds), department \in DepartmentRows :
    Do("createDepartment", NoUser, id, department.userId,
       createDepartment(DB, id, department))

UpdateDepartment ==
  \E id \in DepartmentIds, department \in DepartmentPatches, userId \in ActorIds :
    Do("updateDepartment", userId, id, Owner(departments, id),
       updateDepartment(DB, id, department, userId))

DeleteDepartment ==
  \E id \in DepartmentIds, userId \in ActorIds :
    Do("deleteDepartment", userId, id, Owner(departments, id),
       deleteDepartment(DB, id, userId))

AssignManagerToDepartment ==
  \E departmentId \in DepartmentIds, managerId \in EmployeeIds \cup {NULL},
     userId \in ActorIds :
    Do("assignManagerToDepartment", userId, departmentId,
       Owner(departments, departmentId),
       assignManagerToDepartment(DB, departmentId, managerId, userId))

CreateOrganization ==
  \E id \in FreshIds(organizations, OrganizationIds),
     organization \in OrganizationRows :
    Do("createOrganization", NoUser, id, organization.userId,
       createOrganization(DB, id, organization))

UpdateOrganization ==
  \E id \in OrganizationIds, organization \in OrganizationPatches,
     userId \in ActorIds :
    Do("updateOrganization", userId, id, Owner(organizations, id),
       updateOrganization(DB, id, organization, userId))

DeleteOrganization ==
  \E id \in OrganizationIds, userId \in ActorIds :
    Do("deleteOrganization", userId, id, Owner(organizations, id),
       deleteOrganization(DB, id, userId))

\* ---------------------------------------------------------- specifications
\* A run works on one fixture: a seeded database and the operations of one
\* part of the schema.  Spec is the storage layer over all fixtures.

\* the database after construction
InitUsers ==
  /\ users = <<>> /\ projects = <<>> /\ tasks = <<>> /\ timeEntries = <<>>
  /\ employees = <<>> /\ projectEmployees = {} /\ departments = <<>>
  /\ organizations = <<>>
  /\ last = NoCall /\ running = Idle /\ assigning = NotAssigning
  /\ request = NoRequest
  /\ fixture = "users"

\* the users table: sign-in, role assignment, deactivation, test users
NextUsers ==
  \/ UpsertUser \/ UpdateUserRole \/ DeactivateUser \/ CreateTestUsers
  \/ IsAuthenticated
SpecUsers == InitUsers /\ [][NextUsers]_vars

\* two users signed in
SeedUsers == [u \in UserIds |-> UserDefaults]
\* one project of the other user, with one task
SeedProjects == [p \in {1} |-> [isEnterpriseWide |-> TRUE, userId |-> "u2"]]
SeedTasks == [t \in {1} |-> [projectId |-> 1, status |-> "active"]]
\* one time entry of the other user on the seeded task
SeedEntries ==
  [e \in {1} |-> [userId |-> "u2", projectId |-> 1, taskId |-> 1, duration |-> 1]]
\* each user with an employee profile
SeedEmployees ==
  [m \in {1, 2} |-> IF m = 1 THEN [department |-> "d1", userId |-> "u1"]
                             ELSE [department |-> "d2", userId |-> "u2"]]

\* time entries
InitTime ==
  /\ users = SeedUsers /\ projects = SeedProjects /\ tasks = SeedTasks
  /\ timeEntries = <<>>
  /\ employees = SeedEmployees /\ projectEmployees = {} /\ departments = <<>>
  /\ organizations = <<>>
  /\ last = NoCall /\ running = Idle /\ assigning = NotAssigning
  /\ request = NoRequest
  /\ fixture = "time"

NextTime ==
  \/ UpdateUserRole
  \/ CreateTimeEntry \/ UpdateTimeEntry \/ DeleteTimeEntry
  \/ GetTimeEntry \/ GetTimeEntries \/ GetRecentActivity
  \/ GetDashboardStats \/ GetProjectTimeBreakdown \/ GetDepartmentHoursSummary
SpecTime == InitTime /\ [][NextTime]_vars

\* projects and tasks
InitProj ==
  /\ users = SeedUsers /\ projects = <<>> /\ tasks = <<>> /\ timeEntries = <<>>
  /\ employees = SeedEmployees /\ projectEmployees = {} /\ departments = <<>>
  /\ organizations = <<>>
  /\ last = NoCall /\ running = Idle /\ assigning = NotAssigning
  /\ request = NoRequest
  /\ fixture = "proj"

NextProj ==
  \/ UpdateUserRole
  \/ CreateProject \/ UpdateProject \/ DeleteProject
  \/ CreateTask \/ UpdateTask \/ DeleteTask
  \/ GetProjects \/ GetEmployeeProjects \/ GetProject
  \/ GetTasks \/ GetTask \/ GetAllUserTasks
SpecProj == InitProj /\ [][NextProj]_vars

\* projects and their assigned employees
InitAssign ==
  /\ users = SeedUsers /\ projects = <<>> /\ tasks = <<>> /\ timeEntries = <<>>
  /\ employees = SeedEmployees /\ projectEmployees = {} /\ departments = <<>>
  /\ organizations = <<>>
  /\ last = NoCall /\ running = Idle /\ assigning = NotAssigning
  /\ request = NoRequest
  /\ fixture = "assign"

NextAssign ==
  \/ UpdateUserRole \/ UpdateOtherUserRole
  \/ CreateProject \/ UpdateProject \/ DeleteProject
  \/ AssignEmployeesToProject \/ RemoveEmployeeFromProject \/ DeleteEmployee
  \/ GetProjectWithEmployees \/ GetProjectEmployees
SpecAssign == InitAssign /\ [][NextAssign]_vars

\* employees, departments and organizations
InitOrg ==
  /\ users = SeedUsers /\ projects = <<>> /\ tasks = <<>> /\ timeEntries = <<>>
  /\ employees = <<>> /\ projectEmployees = {} /\ departments = <<>>
  /\ organizations = <<>>
  /\ last = NoCall /\ running = Idle /\ assigning = NotAssigning
  /\ request = NoRequest
  /\ fixture = "org"

NextOrg ==
  \/ UpdateUserRole
  \/ CreateEmployee \/ UpdateEmployee \/ DeleteEmployee \/ LinkUserToEmployee
  \/ GetEmployees \/ GetEmployee
  \/ CreateDepartment \/ UpdateDepartment \/ DeleteDepartment
  \/ AssignManagerToDepartment
  \/ CreateOrganization \/ UpdateOrganization \/ DeleteOrganization
SpecOrg == InitOrg /\ [][NextOrg]_vars

\* time entries on a project whose owner and visibility change, and the
\* deletes that cascade into them
InitReport ==
  /\ users = SeedUsers /\ projects = SeedProjects /\ tasks = SeedTasks
  /\ timeEntries = SeedEntries
  /\ employees = SeedEmployees /\ projectEmployees = {} /\ departments = <<>>
  /\ organizations = <<>>
  /\ last = NoCall /\ running = Idle /\ assigning = NotAssigning
  /\ request = NoRequest
  /\ fixture = "report"

NextReport ==
  \/ UpdateUserRole
  \/ UpdateProject \/ DeleteProject \/ DeleteTask
  \/ CreateTimeEntry
  \/ GetProjectTimeBreakdown
SpecReport == InitReport /\ [][NextReport]_vars

\* one updateProject call of u1 running inside withDatabaseRetry while u1's
\* role is changed
InitRetry ==
  /\ users = SeedUsers /\ projects = SeedProjects /\ tasks = <<>>
  /\ timeEntries = <<>>
  /\ employees = <<>> /\ projectEmployees = {} /\ departments = <<>>
  /\ organizations = <<>>
  /\ last = NoCall /\ running = Idle /\ assigning = NotAssigning
  /\ request = NoRequest
  /\ fixture = "retry"

NextRetry ==
  \/ UpdateUserRole
  \/ WithDatabaseRetry \/ UpdateProjectGetUser \/ UpdateProjectUpdate
  \/ WithDatabaseRetryCatch \/ WithDatabaseRetryWait
SpecRetry == InitRetry /\ [][NextRetry]_vars
\* every await of a started call is resumed: the operation's awaits settle
\* (each invocation of operation terminates) and the timer of the wait fires
SpecRetryFair ==
  /\ SpecRetry
  /\ WF_vars(UpdateProjectGetUser) /\ WF_vars(UpdateProjectUpdate)
  /\ WF_vars(WithDatabaseRetryCatch) /\ WF_vars(WithDatabaseRetryWait)

\* two assignEmployeesToProject calls of u1 on project 1 at the same time
InitAssigning ==
  /\ users = SeedUsers /\ projects = SeedProjects /\ tasks = <<>>
  /\ timeEntries = <<>>
  /\ employees = SeedEmployees /\ projectEmployees = {} /\ departments = <<>>
  /\ organizations = <<>>
  /\ last = NoCall /\ running = Idle /\ assigning = NotAssigning
  /\ request = NoRequest
  /\ fixture = "assigning"

NextAssigning ==
  \/ UpdateUserRole
  \/ AssignGetUser \/ AssignSelectProject \/ AssignDelete \/ AssignInsert
SpecAssigning == InitAssigning /\ [][NextAssigning]_vars

\* requests through isAuthenticated, with an empty users table, in each mode
InitAuth ==
  /\ users = <<>> /\ projects = <<>> /\ tasks = <<>> /\ timeEntries = <<>>
  /\ employees = <<>> /\ projectEmployees = {} /\ departments = <<>>
  /\ organizations = <<>>
  /\ last = NoCall /\ running = Idle /\ assigning = NotAssigning
  /\ \E env \in NodeEnvs : request = [NoRequest EXCEPT !.NODE_ENV = env]
  /\ fixture = "auth"

NextAuth ==
  \/ Verify \/ Logout \/ Tick \/ IsAuthenticatedRequest \/ UpdateTestUserRole
SpecAuth == InitAuth /\ [][NextAuth]_vars

\* the whole storage layer
Init ==
  \/ InitUsers \/ InitTime \/ InitProj \/ InitAssign \/ InitOrg \/ InitReport
  \/ InitRetry \/ InitAssigning \/ InitAuth
Next ==
  \/ fixture = "users" /\ NextUsers
  \/ fixture = "time" /\ NextTime
  \/ fixture = "proj" /\ NextProj
  \/ fixture = "assign" /\ NextAssign
  \/ fixture = "org" /\ NextOrg
  \/ fixture = "report" /\ NextReport
  \/ fixture = "retry" /\ NextRetry
  \/ fixture = "assigning" /\ NextAssigning
  \/ fixture = "auth" /\ NextAuth
Spec == Init /\ [][Next]_vars

\* ================================================================== claims
\* the stored role of a user with a row, as the role column holds it
StoredRole(u) == users[u].role
\* the same database with user u's role column set to role
SetRole(db, u, role) == [db EXCEPT !.users[u].role = role]
\* the tables other than users
Data(db) == <<db.projects, db.tasks, db.timeEntries, db.employees,
              db.projectEmployees, db.departments, db.organizations>>
\* two calls with the same outcome: same return, same error, same rows, same data
SameOutcome(r1, r2) ==
  /\ r1.ok = r2.ok /\ r1.err = r2.err /\ r1.rows = r2.rows
  /\ Data(r1.db) = Data(r2.db)
\* a call that did what it was asked to
Succeeds(r) == r.err = NoError /\ r.ok
AlsoSucceeds(r1, r2) == Succeeds(r1) => Succeeds(r2)

\* P holds of the results of every role-gated storage call made by userId on
\* database a and on database b with the same arguments
ForAllRoleGatedCalls(P(_, _), a, b, userId) ==
  /\ \A id \in FreshIds(a.projects, ProjectIds), row \in ProjectRows :
       P(createProject(a, id, row, userId), createProject(b, id, row, userId))
  /\ \A id \in ProjectIds, patch \in ProjectPatches :
       P(updateProject(a, id, patch, userId), updateProject(b, id, patch, userId))
  /\ \A id \in ProjectIds :
       /\ P(deleteProject(a, id, userId), deleteProject(b, id, userId))
       /\ P(getTasks(a, id, userId), getTasks(b, id, userId))
       /\ P(getProjectEmployees(a, id, userId), getProjectEmployees(b, id, userId))
  /\ \A id \in FreshIds(a.tasks, TaskIds), row \in TaskRows :
       P(createTask(a, id, row, userId), createTask(b, id, row, userId))
  /\ \A id \in TaskIds, patch \in TaskPatches :
       P(updateTask(a, id, patch, userId), updateTask(b, id, patch, userId))
  /\ \A id \in TaskIds :
       P(deleteTask(a, id, userId), deleteTask(b, id, userId))
  /\ P(getAllUserTasks(a, userId), getAllUserTasks(b, userId))
  /\ \A id \in ProjectIds \cup {NULL} :
       P(getTimeEntries(a, userId, id), getTimeEntries(b, userId, id))
  /\ \A id \in EntryIds, patch \in EntryPatches :
       P(updateTimeEntry(a, id, patch, userId), updateTimeEntry(b, id, patch, userId))
  /\ \A id \in EntryIds :
       /\ P(getTimeEntry(a, id, userId), getTimeEntry(b, id, userId))
       /\ P(deleteTimeEntry(a, id, userId), deleteTimeEntry(b, id, userId))
  /\ P(getRecentActivity(a, userId), getRecentActivity(b, userId))
  /\ P(getDashboardStats(a, userId), getDashboardStats(b, userId))
  /\ P(getProjectTimeBreakdown(a, userId), getProjectTimeBreakdown(b, userId))
  /\ P(getDepartmentHoursSummary(a, userId), getDepartmentHoursSummary(b, userId))
  /\ P(getEmployees(a, userId), getEmployees(b, userId))
  /\ \A id \in EmployeeIds, patch \in EmployeePatches :
       P(updateEmployee(a, id, patch, userId), updateEmployee(b, id, patch, userId))
  /\ \A id \in EmployeeIds :
       /\ P(getEmployee(a, id, userId), getEmployee(b, id, userId))
       /\ P(deleteEmployee(a, id, userId), deleteEmployee(b, id, userId))
  /\ \A id \in ProjectIds, ids \in EmployeeIdLists :
       P(assignEmployeesToProject(a, id, ids, userId),
         assignEmployeesToProject(b, id, ids, userId))
  /\ \A id \in ProjectIds, m \in EmployeeIds :
       P(removeEmployeeFromProject(a, id, m, userId),
         removeEmployeeFromProject(b, id, m, userId))
  /\ \A id \in OrganizationIds, patch \in OrganizationPatches :
       P(updateOrganization(a, id, patch, userId),
         updateOrganization(b, id, patch, userId))
  /\ \A id \in OrganizationIds :
       P(deleteOrganization(a, id, userId), deleteOrganization(b, id, userId))

C2_UnknownRoleIsEmployee ==
  \A userId \in ActorIds \cap DOMAIN users :
    StoredRole(userId) \notin Roles =>
      ForAllRoleGatedCalls(SameOutcome, DB, SetRole(DB, userId, "employee"), userId)

\* a user with a role outside the named roles has just been refused a write
\* and has just been let through to an own row
C2_Witness ==
  /\ last.userId \in DOMAIN users
  /\ StoredRole(last.userId) \in {"guest", "", NoRole}
  /\ \/ last.op = "updateProject" /\ last.err = InsufficientPermissions
                                  /\ last.id \in DOMAIN projects
     \/ last.op = "updateTimeEntry" /\ last.ok /\ last.owner = last.userId

\* ---- C3
\* C3: every role-gated storage call that succeeds for an acting user, whatever
\* the user's role, also succeeds with the same arguments on the same database
\* when that user's role is admin.
C3_AdminSuperset ==
  \A userId \in ActorIds \cap DOMAIN users :
    ForAllRoleGatedCalls(AlsoSucceeds, DB, SetRole(DB, userId, "admin"), userId)

\* a manager has just updated an employee: a call that succeeds for a role
\* other than admin and project_manager
C3_Witness ==
  /\ last.op = "updateEmployee" /\ last.ok
  /\ last.userId \in DOMAIN users /\ StoredRole(last.userId) = "manager"

\* ---- C4
\* C4: createProject, updateProject, deleteProject and assignEmployeesToProject
\* called by a user of role manager or employee throw "Insufficient
\* permissions" and leave projects and project_employees as they were.
C4_ManagerEmployeeBlocked ==
  \A userId \in ActorIds \cap DOMAIN users :
    StoredRole(userId) \in {"manager", "employee"} =>
      LET Blocked(r) == /\ r.err = InsufficientPermissions
                        /\ r.db.projects = projects
                        /\ r.db.projectEmployees = projectEmployees
      IN  /\ \A id \in FreshIds(projects, ProjectIds) \cup {MaxProjects + 1},
                row \in ProjectRows :
               Blocked(createProject(DB, id, row, userId))
          /\ \A id \in ProjectIds, patch \in ProjectPatches :
               Blocked(updateProject(DB, id, patch, userId))
          /\ \A id \in ProjectIds :
               Blocked(deleteProject(DB, id, userId))
          /\ \A id \in ProjectIds, ids \in EmployeeIdLists :
               Blocked(assignEmployeesToProject(DB, id, ids, userId))

\* a manager has just been refused an assignment on a project that has
\* assigned employees
C4_Witness ==
  /\ last.op = "assignEmployeesToProject"
  /\ last.err = InsufficientPermissions
  /\ last.userId \in DOMAIN users /\ StoredRole(last.userId) = "manager"
  /\ \E r \in projectEmployees : r.projectId = last.id

\* ---- C5
\* C5: a user's stored role changes only by an explicit role assignment made
\* by an admin; no other operation (sign-in upsert, test-user creation) changes
\* the role of an existing user.  updateUserRole takes no acting user, so every
\* call of it is counted here as the admin's assignment.
C5_RoleChangeOnlyByAdmin ==
  [][\A u \in DOMAIN users :
       users'[u].role # users[u].role => last'.op = "updateUserRole"]_vars

\* ---- C6
\* C6: the storage layer fails closed: createTask called without an acting
\* user, and updateDepartment, deleteDepartment and assignManagerToDepartment
\* called by an employee, write nothing.
C6_FailClosed ==
  /\ \A id \in FreshIds(tasks, TaskIds), row \in TaskRows :
       Data(createTask(DB, id, row, NoUser).db) = Data(DB)
  /\ \A userId \in ActorIds :
       userRole(DB, userId) = "employee" =>
         /\ \A id \in DepartmentIds, patch \in DepartmentPatches :
              Data(updateDepartment(DB, id, patch, userId).db) = Data(DB)
         /\ \A id \in DepartmentIds :
              Data(deleteDepartment(DB, id, userId).db) = Data(DB)
         /\ \A id \in DepartmentIds, m \in EmployeeIds \cup {NULL} :
              Data(assignManagerToDepartment(DB, id, m, userId).db) = Data(DB)

\* ---- C7
\* the user's employee profile is assigned to the project
AssignedTo(db, userId, p) ==
  \E r \in db.projectEmployees :
    /\ r.projectId = p
    /\ r.employeeId \in DOMAIN db.employees
    /\ db.employees[r.employeeId].userId = userId

\* C7: for an acting user with role employee, a restricted project the user
\* neither owns nor is assigned to is returned by none of getEmployeeProjects,
\* getProject and getProjectWithEmployees, and none of its tasks is returned
\* by getTasks or getAllUserTasks.
C7_RestrictedProjectHidden ==
  \A userId \in ActorIds \cap DOMAIN users, p \in DOMAIN projects :
    /\ StoredRole(userId) = "employee"
    /\ ~projects[p].isEnterpriseWide
    /\ projects[p].userId # userId
    /\ ~AssignedTo(DB, userId, p)
    => /\ p \notin getEmployeeProjects(DB, userId).rows
       /\ ~getProject(DB, p, userId).ok
       /\ ~getProjectWithEmployees(DB, p, userId).ok
       /\ getTasks(DB, p, userId).rows = {}
       /\ \A t \in getAllUserTasks(DB, userId).rows : tasks[t].projectId # p

\* ---- C8
\* the departments of the user's own employee profile
OwnDepartments(db, userId) ==
  {db.employees[m].department :
     m \in {x \in DOMAIN db.employees : db.employees[x].userId = userId}}

\* C8: for an acting user with role manager (who has an employee profile),
\* getEmployees returns only employees whose department is the manager's own
\* department.
C8_ManagerDepartmentScope ==
  \A userId \in ActorIds \cap DOMAIN users :
    StoredRole(userId) = "manager" /\ OwnDepartments(DB, userId) # {} =>
      \A m \in getEmployees(DB, userId).rows :
        employees[m].department \in OwnDepartments(DB, userId)

\* ---- C9
\* C9: deleteProject removes a project only when the acting user's role is
\* admin; called by a project_manager it is blocked and the project is still
\* there afterwards.
C9_DeleteProjectAdminOnly ==
  \A userId \in ActorIds, p \in DOMAIN projects :
    LET r == deleteProject(DB, p, userId)
    IN  /\ p \notin DOMAIN r.db.projects => userRole(DB, userId) = "admin"
        /\ userRole(DB, userId) = "project_manager" =>
             r.err = InsufficientPermissions /\ p \in DOMAIN r.db.projects

\* ---- C10
\* C10: deleteProject called by an admin on an existing project that another
\* user owns is allowed: it throws nothing, returns true, and the project is
\* gone afterwards.
C10_AdminOverride ==
  \A userId \in ActorIds, p \in DOMAIN projects :
    userRole(DB, userId) = "admin" /\ projects[p].userId # userId =>
      LET r == deleteProject(DB, p, userId)
      IN  r.err = NoError /\ r.ok /\ p \notin DOMAIN r.db.projects

\* an admin has just deleted a project owned by another user
C10_Witness ==
  /\ last.op = "deleteProject" /\ last.ok /\ last.err = NoError
  /\ last.userId \in DOMAIN users /\ StoredRole(last.userId) = "admin"
  /\ last.owner \notin {last.userId, NoUser}
  /\ last.id \notin DOMAIN projects

\* ---- C11
\* a call that did not throw an authorization denial
NotThrownDenial(r1, r2) == r1.err # InsufficientPermissions

\* C11: an authorization denial reaches the caller as a returned value and is
\* never a thrown exception: no role-gated storage call throws because the
\* acting user's role lacks the capability.
C11_DenialIsValue ==
  \A userId \in ActorIds :
    ForAllRoleGatedCalls(NotThrownDenial, DB, DB, userId)

\* ---- C12
\* C12: an actor with no resolved role (no users row, or a row whose role is
\* null or empty) is evaluated as employee, and no step other than an explicit
\* role assignment (updateUserRole, the test users' fixed roles) turns a user
\* with an empty role into an admin; the development-mode authentication is
\* one of those steps.
C12_NoDefaultAdmin ==
  [][/\ \A userId \in ActorIds \cup {DevUser} :
          (userId \notin DOMAIN users \/ StoredRole(userId) \in {NoRole, ""})
            => userRole(DB, userId) = "employee"
      /\ \A u \in DOMAIN users :
          /\ users[u].role \in {NoRole, ""}
          /\ users'[u].role = "admin"
          => last'.op \in {"updateUserRole", "createTestUsers"}]_vars

\* ---- C13
\* C13: for an acting user with role project_manager, each of getAllUserTasks,
\* getTimeEntries, getTimeEntry, getDashboardStats and getProjectTimeBreakdown
\* returns what it returns to the same user with role admin on the same
\* database.
C13_ProjectManagerSeesAll ==
  \A userId \in ActorIds \cap DOMAIN users :
    StoredRole(userId) = "project_manager" =>
      LET asAdmin == SetRole(DB, userId, "admin")
      IN  /\ getAllUserTasks(DB, userId).rows = getAllUserTasks(asAdmin, userId).rows
          /\ \A id \in ProjectIds \cup {NULL} :
               getTimeEntries(DB, userId, id).rows =
                 getTimeEntries(asAdmin, userId, id).rows
          /\ \A id \in EntryIds :
               getTimeEntry(DB, id, userId).rows = getTimeEntry(asAdmin, id, userId).rows
          /\ getDashboardStats(DB, userId).rows = getDashboardStats(asAdmin, userId).rows
          /\ getProjectTimeBreakdown(DB, userId).rows =
               getProjectTimeBreakdown(asAdmin, userId).rows

\* ---- C14
\* C14: getEmployeeProjects(userId) returns exactly the enterprise-wide
\* projects together with the restricted projects the user owns or the user's
\* employee record is assigned to.
C14_EmployeeProjects ==
  \A userId \in ActorIds :
    getEmployeeProjects(DB, userId).rows =
      {p \in DOMAIN projects :
         \/ projects[p].isEnterpriseWide
         \/ projects[p].userId = userId
         \/ AssignedTo(DB, userId, p)}

\* ---- C15
\* the documented levels: admin 4, project_manager 3, manager 2, employee 1
RoleLevel(role) ==
  CASE role = "admin" -> 4
    [] role = "project_manager" -> 3
    [] role = "manager" -> 2
    [] role = "employee" -> 1

\* C15: every role-gated storage call that succeeds for an acting user of one
\* of the roles admin > project_manager > manager > employee also succeeds,
\* with the same arguments on the same database, when the user has a higher
\* role.
C15_HigherRoleCanDoLower ==
  \A userId \in ActorIds \cap DOMAIN users :
    \A lower, higher \in {"admin", "project_manager", "manager", "employee"} :
      RoleLevel(lower) < RoleLevel(higher) =>
        ForAllRoleGatedCalls(AlsoSucceeds, SetRole(DB, userId, lower),
                             SetRole(DB, userId, higher), userId)

\* ---- C16
\* the same database without the time entries of users other than userId
WithoutOthersEntries(db, userId) ==
  [db EXCEPT !.timeEntries =
     Without(db.timeEntries,
             {e \in DOMAIN db.timeEntries : db.timeEntries[e].userId # userId})]

\* C16: for an acting user with role employee, what getTimeEntries,
\* getTimeEntry, getRecentActivity, getDashboardStats, getProjectTimeBreakdown
\* and getDepartmentHoursSummary return depends only on the user's own time
\* entries: the database with the other users' time entries taken out gives
\* the same results.
C16_EmployeePersonalDataOnly ==
  \A userId \in ActorIds \cap DOMAIN users :
    StoredRole(userId) = "employee" =>
      LET own == WithoutOthersEntries(DB, userId)
      IN  /\ \A id \in ProjectIds \cup {NULL} :
               getTimeEntries(DB, userId, id).rows = getTimeEntries(own, userId, id).rows
          /\ \A id \in EntryIds :
               getTimeEntry(DB, id, userId).rows = getTimeEntry(own, id, userId).rows
          /\ getRecentActivity(DB, userId).rows = getRecentActivity(own, userId).rows
          /\ getDashboardStats(DB, userId).rows = getDashboardStats(own, userId).rows
          /\ getProjectTimeBreakdown(DB, userId).rows =
               getProjectTimeBreakdown(own, userId).rows
          /\ getDepartmentHoursSummary(DB, userId).rows =
               getDepartmentHoursSummary(own, userId).rows

\* ---- C17
\* C17: a user with role viewer has read-only access: no storage call made
\* with a viewer as acting user inserts, updates or deletes a row.
C17_ViewerReadOnly ==
  \A userId \in ActorIds \cap DOMAIN users :
    StoredRole(userId) = "viewer" =>
      LET NoWrite(r1, r2) == r1.db = DB
      IN  /\ ForAllRoleGatedCalls(NoWrite, DB, DB, userId)
          /\ \A id \in DepartmentIds, patch \in DepartmentPatches :
               updateDepartment(DB, id, patch, userId).db = DB
          /\ \A id \in DepartmentIds :
               deleteDepartment(DB, id, userId).db = DB
          /\ \A id \in DepartmentIds, m \in EmployeeIds \cup {NULL} :
               assignManagerToDepartment(DB, id, m, userId).db = DB

\* ---- C18
\* C18: a role change takes effect immediately: whenever an updateProject call
\* of a user commits its write, the role the latest completed updateUserRole
\* stored for that user permits the write, however the role change and the
\* call's steps interleave.
C18_RoleChangeImmediate ==
  [][running.pc = "update" /\ running'.pc = "returned" /\ running'.ok
       => IsAdminOrProjectManager(userRole(DB, running.userId))]_vars

\* ---- C19
\* C19: after any sequence of storage operations every task references an
\* existing project, every time entry references an existing user and an
\* existing project and has a taskId that is null or an existing task, and
\* every project_employees row references an existing project, employee and
\* user.
C19_ReferentialIntegrity ==
  /\ \A t \in DOMAIN tasks : tasks[t].projectId \in DOMAIN projects
  /\ \A e \in DOMAIN timeEntries :
       /\ timeEntries[e].userId \in DOMAIN users
       /\ timeEntries[e].projectId \in DOMAIN projects
       /\ timeEntries[e].taskId = NULL \/ timeEntries[e].taskId \in DOMAIN tasks
  /\ \A r \in projectEmployees :
       /\ r.projectId \in DOMAIN projects
       /\ r.employeeId \in DOMAIN employees
       /\ r.userId \in DOMAIN users

\* the project that had a task and a time entry on that task has just been
\* deleted, and the task and the entry went with it
C19_Witness ==
  /\ fixture = "report"
  /\ last.op = "deleteProject" /\ last.ok /\ last.id = 1
  /\ projects = <<>> /\ tasks = <<>> /\ timeEntries = <<>>

Settled == running.pc \in {"returned", "thrown"}

\* the call ended after at least one and at most maxRetries runs of the
\* operation; a returned call ran the operation once per attempt and its last
\* run raised nothing, a thrown call throws what its last run raised
WithinLimit ==
  /\ running.bodies \in 1..running.maxRetries
  /\ running.pc = "returned" => running.err = NoError
  /\ running.pc = "thrown" =>
        /\ running.err # NoError
        /\ running.thrown = running.err

CameExpired ==
  /\ request.response # "none"
  /\ request.before # Anonymous
  /\ Expired(request.before, request.at)

\* C25: a request from an authenticated session whose access token has
\* expired reaches the next handler only after a token refresh has succeeded
\* and the session holds the refreshed access token, refresh token and
\* expiry; when the session has no refresh token, or the refresh fails, the
\* request is answered with 401 and next() is not called.
C25_ExpiredNeedsRefresh ==
  CameExpired =>
    /\ request.response = "next" =>
          /\ request.refreshed = "ok"
          /\ request.after.access_token = request.tokens.access_token
          /\ request.after.refresh_token = request.tokens.refresh_token
          /\ request.after.expires_at = request.tokens.exp
    /\ request.before.refresh_token = "" \/ request.refreshed # "ok" =>
          request.response = "401"

\* a request that came with an expired token went on to the next handler
\* with a new access token and a later expiry
C25_Witness ==
  /\ CameExpired /\ request.response = "next"
  /\ request.after.access_token # request.before.access_token
  /\ request.after.expires_at > request.before.expires_at

\* ---- C29
\* C29: in development mode the bypass sets the admin role only if the test
\* user does not exist or has no role: in every step where isAuthenticated
\* handles a request without a session, a test-admin-user that had no row
\* before and was given one has the role admin afterwards, and a
\* test-admin-user that had a role keeps it.
C29_BypassAdminOnlyIfNew ==
  [][IsAuthenticatedRequest /\ request.NODE_ENV = "development"
       /\ request.user = Anonymous
     => /\ (DevUser \notin DOMAIN users /\ DevUser \in DOMAIN users') =>
              users'[DevUser].role = "admin"
        /\ (DevUser \in DOMAIN users /\ users[DevUser].role \notin {NoRole, ""}) =>
              users'[DevUser].role = users[DevUser].role]_vars

\* ---- C26
\* the time entries that belong to users other than userId
EntriesOfOthers(db, userId) ==
  {<<e, db.timeEntries[e]>> : e \in {x \in DOMAIN db.timeEntries :
                                      db.timeEntries[x].userId # userId}}

\* C26: no updateTimeEntry or deleteTimeEntry call made with an employee as
\* acting user creates, changes or deletes a time entry whose userId is
\* another user: the entries of other users are the same after the call as
\* before it, so an employee's own entry cannot be reassigned to another user.
C26_EmployeeTouchesOwnEntriesOnly ==
  \A userId \in ActorIds :
    userRole(DB, userId) = "employee" =>
      \A id \in EntryIds :
        /\ EntriesOfOthers(deleteTimeEntry(DB, id, userId).db, userId)
             = EntriesOfOthers(DB, userId)
        /\ \A entry \in EntryPatches :
             EntriesOfOthers(updateTimeEntry(DB, id, entry, userId).db, userId)
               = EntriesOfOthers(DB, userId)

\* ---- C30
\* the call was refused and left the database as it is
DeniedWithoutWrite(r) == ~Succeeds(r) /\ r.db = DB

\* C30: after deactivateUser(u) every role-gated mutating storage operation
\* called with u as acting user is denied and writes nothing, whatever role u
\* holds: while users[u].isActive is false, no create, update, delete or
\* assignment by u succeeds or changes a table.
C30_DeactivatedUserDenied ==
  \A userId \in UserIds :
    (userId \in DOMAIN users /\ ~users[userId].isActive) =>
      /\ \A id \in FreshIds(projects, ProjectIds), row \in ProjectRows :
           DeniedWithoutWrite(createProject(DB, id, row, userId))
      /\ \A id \in ProjectIds, patch \in ProjectPatches :
           DeniedWithoutWrite(updateProject(DB, id, patch, userId))
      /\ \A id \in ProjectIds : DeniedWithoutWrite(deleteProject(DB, id, userId))
      /\ \A id \in FreshIds(tasks, TaskIds), row \in TaskRows :
           DeniedWithoutWrite(createTask(DB, id, row, userId))
      /\ \A id \in TaskIds, patch \in TaskPatches :
           DeniedWithoutWrite(updateTask(DB, id, patch, userId))
      /\ \A id \in TaskIds : DeniedWithoutWrite(deleteTask(DB, id, userId))
      /\ \A id \in EntryIds, patch \in EntryPatches :
           DeniedWithoutWrite(updateTimeEntry(DB, id, patch, userId))
      /\ \A id \in EntryIds : DeniedWithoutWrite(deleteTimeEntry(DB, id, userId))
      /\ \A id \in EmployeeIds, patch \in EmployeePatches :
           DeniedWithoutWrite(updateEmployee(DB, id, patch, userId))
      /\ \A id \in EmployeeIds : DeniedWithoutWrite(deleteEmployee(DB, id, userId))
      /\ \A id \in ProjectIds, ids \in EmployeeIdLists :
           DeniedWithoutWrite(assignEmployeesToProject(DB, id, ids, userId))
      /\ \A id \in ProjectIds, m \in EmployeeIds :
           DeniedWithoutWrite(removeEmployeeFromProject(DB, id, m, userId))

\* ---- C21
\* the project's assignment rows
AssignmentsOf(db, projectId) == {r \in db.projectEmployees : r.projectId = projectId}

\* C21: assignEmployeesToProject is all-or-nothing: when the call, retries
\* included, ends with an error, the project's assignment rows are what they
\* were before the call.
C21_AssignAllOrNothing ==
  \A projectId \in ProjectIds, employeeIds \in EmployeeIdLists, userId \in ActorIds :
    LET r == assignEmployeesToProjectRetried(DB, projectId, employeeIds, userId, 1)
    IN  r.err # NoError =>
          AssignmentsOf(r.db, projectId) = AssignmentsOf(DB, projectId)

\* ---- C22
\* C22: when two assignEmployeesToProject calls for the same project have
\* both completed successfully, the project's assignment rows are the rows of
\* the employee list of one of the two calls: no mixture of both lists, no
\* second row for an employee that the list names once.
C22_ConcurrentAssignOneList ==
  (\A c \in Requests : assigning[c].pc = "returned") =>
    \E c \in Requests :
      AssignmentsOf(DB, 1) = AssignmentRows(1, assigning[c].employeeIds, "u1")

\* ---- C27
\* C27: for a restricted project and a reading user with role admin or
\* project_manager, the assigned employees getProjectWithEmployees returns
\* are the employees getProjectEmployees returns, whoever made the
\* assignments.
C27_AuditUserIdNoEffect ==
  \A userId \in UserIds, p \in DOMAIN projects :
    /\ IsAdminOrProjectManager(userRole(DB, userId))
    /\ ~projects[p].isEnterpriseWide
    => getProjectWithEmployees(DB, p, userId).rows =
         getProjectEmployees(DB, p, userId).rows

\* ---- C28
\* C28: in every reachable state no project_employees row refers to a project
\* whose isEnterpriseWide flag is true.
C28_NoAssignmentsOnEnterpriseWide ==
  \A r \in projectEmployees :
    r.projectId \in DOMAIN projects => ~projects[r.projectId].isEnterpriseWide

====
